---- MODULE Spec2Model ----
(***************************************************************************)
(* MuxTimer<N>: a table of N optional deadlines multiplexed onto a single  *)
(* tokio Sleep.  Instants are natural numbers (clock ticks); an            *)
(* Option<T> is a sequence of length at most one.                          *)
(***************************************************************************)
EXTENDS Integers, Sequences, FiniteSets, TLC

\* The const generic N of MuxTimer<N>: the number of slots.
N == 3

\* Largest instant of the model's clock; deadlines range over 0..MaxTime.
MaxTime == 2

None == << >>

Some(x) == << x >>

Ordinals == 0 .. (N - 1)

\* Ordinals a caller may pass: the valid ones, and N and N + 1, which are out
\* of range.
OrdinalArgs == 0 .. (N + 1)

Instants == 0 .. MaxTime

VARIABLES
    deadlines,      \* self.deadlines: [Option<Instant>; N]
    sleep,          \* the deadline programmed into self.sleep
    armed_ordinal,  \* self.armed_ordinal, N when unarmed
    now,            \* the runtime's clock, Instant::now()
    last,           \* the last call made on the timer, what it returned, and for a
                    \* fire_at whether its ordinal had fired since the call before
    awaiting,       \* an await of the timer has returned Pending and has not resolved
    fired,          \* <<ordinal, deadline>> of the waits resolved since the last registration call
    registered,     \* the ordinals whose slot was occupied right after the last registration call
    panic           \* "" or the panic that ended the run

vars == << deadlines, sleep, armed_ordinal, now, last, awaiting, fired, registered, panic >>

\* The MuxTimer value itself.
Self == [deadlines |-> deadlines, sleep |-> sleep, armed_ordinal |-> armed_ordinal]

Default == [deadlines |-> [i \in Ordinals |-> None], sleep |-> 0, armed_ordinal |-> N]

is_armed(self) == self.armed_ordinal < N

\* deadline() that reports the alarm's deadline of an unarmed timer too.
deadline_Unguarded(self) == Some(self.sleep)

deadline(self) == IF self.armed_ordinal < N THEN Some(self.sleep) ELSE None

\* arm without reprogramming the alarm.
arm_NoReset(self, ordinal, dl) == [self EXCEPT !.armed_ordinal = ordinal]

arm(self, ordinal, dl) == [self EXCEPT !.sleep = dl, !.armed_ordinal = ordinal]

\* The fold of Iterator::min_by over the occupied slots, from ordinal i on:
\* the accumulator is kept unless the next element compares strictly less.
RECURSIVE min_by(_, _, _)
min_by(self, i, best) ==
    IF i >= N THEN best
    ELSE LET slot == self.deadlines[i] IN
         IF slot = None THEN min_by(self, i + 1, best)
         ELSE IF best = None THEN min_by(self, i + 1, Some(<< i, slot[1] >>))
         ELSE IF best[1][2] <= slot[1] THEN min_by(self, i + 1, best)
         ELSE min_by(self, i + 1, Some(<< i, slot[1] >>))

\* The occupied slot with the highest ordinal, whatever its deadline.
RECURSIVE last_occupied(_, _)
last_occupied(self, i) ==
    IF i < 0 THEN None
    ELSE IF self.deadlines[i] # None THEN Some(<< i, self.deadlines[i][1] >>)
    ELSE last_occupied(self, i - 1)

\* soonest_event without the comparison of deadlines.
soonest_event_Unordered(self) == last_occupied(self, N - 1)

\* min_by that replaces the accumulator by an element that compares equal.
RECURSIVE min_by_LastTie(_, _, _)
min_by_LastTie(self, i, best) ==
    IF i >= N THEN best
    ELSE LET slot == self.deadlines[i] IN
         IF slot = None THEN min_by_LastTie(self, i + 1, best)
         ELSE IF best = None THEN min_by_LastTie(self, i + 1, Some(<< i, slot[1] >>))
         ELSE IF best[1][2] < slot[1] THEN min_by_LastTie(self, i + 1, best)
         ELSE min_by_LastTie(self, i + 1, Some(<< i, slot[1] >>))

\* soonest_event that returns the last of several equal minima.
soonest_event_LastTie(self) == min_by_LastTie(self, 0, None)

soonest_event(self) == min_by(self, 0, None)

\* Sleep::poll that elapses one tick before the programmed deadline.
SleepPoll_Early(dl, clock) == IF clock + 1 >= dl THEN "Ready" ELSE "Pending"

\* Sleep::poll: elapsed once the clock has reached the programmed deadline.
SleepPoll(dl, clock) == IF clock >= dl THEN "Ready" ELSE "Pending"

\* fire_at that re-arms only an unarmed timer.
fire_at_in_range_NoRearm(self, ordinal, dl) ==
    LET slot == self.deadlines[ordinal] IN
    IF slot # None /\ slot[1] < dl
    THEN [self |-> self, ret |-> "false", panic |-> ""]
    ELSE LET s1 == [self EXCEPT !.deadlines[ordinal] = Some(dl)]
             s2 == IF deadline(s1) = None THEN arm(s1, ordinal, dl) ELSE s1
         IN [self |-> s2, ret |-> "true", panic |-> ""]

\* fire_at that overwrites an occupied slot whatever its deadline.
fire_at_in_range_Overwrite(self, ordinal, dl) ==
    LET s1 == [self EXCEPT !.deadlines[ordinal] = Some(dl)]
        cur == deadline(s1)
        s2 == IF cur = None \/ dl < cur[1] THEN arm(s1, ordinal, dl) ELSE s1
    IN [self |-> s2, ret |-> "true", panic |-> ""]

\* fire_at that never touches an occupied slot.
fire_at_in_range_KeepFirst(self, ordinal, dl) ==
    LET slot == self.deadlines[ordinal] IN
    IF slot # None
    THEN [self |-> self, ret |-> "false", panic |-> ""]
    ELSE LET s1 == [self EXCEPT !.deadlines[ordinal] = Some(dl)]
             cur == deadline(s1)
             s2 == IF cur = None \/ dl < cur[1] THEN arm(s1, ordinal, dl) ELSE s1
         IN [self |-> s2, ret |-> "true", panic |-> ""]

\* fire_at that also rejects a deadline equal to the existing one.
fire_at_in_range_Le(self, ordinal, dl) ==
    LET slot == self.deadlines[ordinal] IN
    IF slot # None /\ slot[1] <= dl
    THEN [self |-> self, ret |-> "false", panic |-> ""]
    ELSE LET s1 == [self EXCEPT !.deadlines[ordinal] = Some(dl)]
             cur == deadline(s1)
             s2 == IF cur = None \/ dl < cur[1] THEN arm(s1, ordinal, dl) ELSE s1
         IN [self |-> s2, ret |-> "true", panic |-> ""]

\* fire_at that re-arms when the new deadline is later than the armed one.
fire_at_in_range_Gt(self, ordinal, dl) ==
    LET slot == self.deadlines[ordinal] IN
    IF slot # None /\ slot[1] < dl
    THEN [self |-> self, ret |-> "false", panic |-> ""]
    ELSE LET s1 == [self EXCEPT !.deadlines[ordinal] = Some(dl)]
             cur == deadline(s1)
             s2 == IF cur = None \/ dl > cur[1] THEN arm(s1, ordinal, dl) ELSE s1
         IN [self |-> s2, ret |-> "true", panic |-> ""]

\* fire_at that also re-arms when the new deadline equals the armed one.
fire_at_in_range_RearmOnTie(self, ordinal, dl) ==
    LET slot == self.deadlines[ordinal] IN
    IF slot # None /\ slot[1] < dl
    THEN [self |-> self, ret |-> "false", panic |-> ""]
    ELSE LET s1 == [self EXCEPT !.deadlines[ordinal] = Some(dl)]
             cur == deadline(s1)
             s2 == IF cur = None \/ dl <= cur[1] THEN arm(s1, ordinal, dl) ELSE s1
         IN [self |-> s2, ret |-> "true", panic |-> ""]

\* Lines 46-57 of fire_at, for an ordinal that indexes the table: the timer
\* after the call, the value returned, the panic raised.
fire_at_in_range(self, ordinal, dl) ==
    LET slot == self.deadlines[ordinal] IN
    IF slot # None /\ slot[1] < dl
    THEN [self |-> self, ret |-> "false", panic |-> ""]
    ELSE LET s1 == [self EXCEPT !.deadlines[ordinal] = Some(dl)]
             cur == deadline(s1)
             s2 == IF cur = None \/ dl < cur[1] THEN arm(s1, ordinal, dl) ELSE s1
         IN [self |-> s2, ret |-> "true", panic |-> ""]

\* fire_at that clamps an out-of-range ordinal to the last slot.
fire_at_Clamp(self, ordinal, dl) ==
    fire_at_in_range(self, IF ordinal >= N THEN N - 1 ELSE ordinal, dl)

\* fire_at: indexing self.deadlines with an ordinal that is out of range panics.
fire_at(self, ordinal, dl) ==
    IF ordinal >= N
    THEN [self |-> self, ret |-> "panic", panic |-> "index out of bounds"]
    ELSE fire_at_in_range(self, ordinal, dl)

\* The body of poll reading armed_ordinal without replacing it by N.
poll_armed_NoDisarm(self, clock) ==
    IF SleepPoll(self.sleep, clock) = "Pending"
    THEN [self |-> self, ret |-> "Pending", ordinal |-> N, deadline |-> 0, panic |-> ""]
    ELSE LET fired_ordinal == self.armed_ordinal
             slot == self.deadlines[fired_ordinal]
         IN IF slot = None
            THEN [self |-> self, ret |-> "panic", ordinal |-> fired_ordinal, deadline |-> 0,
                  panic |-> "armed"]
            ELSE LET s2 == [self EXCEPT !.deadlines[fired_ordinal] = None]
                     fired_deadline == slot[1]
                 IN IF fired_deadline # s2.sleep
                    THEN [self |-> s2, ret |-> "panic", ordinal |-> fired_ordinal,
                          deadline |-> fired_deadline,
                          panic |-> "assertion failed: fired_deadline == sleep.deadline()"]
                    ELSE LET e == soonest_event(s2)
                             s3 == IF e # None THEN arm(s2, e[1][1], e[1][2]) ELSE s2
                         IN [self |-> s3, ret |-> "Ready", ordinal |-> fired_ordinal,
                             deadline |-> fired_deadline, panic |-> ""]

\* The body of poll without the re-arming for the soonest remaining event.
poll_armed_NoRearm(self, clock) ==
    IF SleepPoll(self.sleep, clock) = "Pending"
    THEN [self |-> self, ret |-> "Pending", ordinal |-> N, deadline |-> 0, panic |-> ""]
    ELSE LET fired_ordinal == self.armed_ordinal
             s1 == [self EXCEPT !.armed_ordinal = N]
             slot == s1.deadlines[fired_ordinal]
         IN IF slot = None
            THEN [self |-> s1, ret |-> "panic", ordinal |-> fired_ordinal, deadline |-> 0,
                  panic |-> "armed"]
            ELSE LET s2 == [s1 EXCEPT !.deadlines[fired_ordinal] = None]
                     fired_deadline == slot[1]
                 IN IF fired_deadline # s2.sleep
                    THEN [self |-> s2, ret |-> "panic", ordinal |-> fired_ordinal,
                          deadline |-> fired_deadline,
                          panic |-> "assertion failed: fired_deadline == sleep.deadline()"]
                    ELSE [self |-> s2, ret |-> "Ready", ordinal |-> fired_ordinal,
                          deadline |-> fired_deadline, panic |-> ""]

\* The body of poll reading the fired slot without taking its deadline out.
poll_armed_NoTake(self, clock) ==
    IF SleepPoll(self.sleep, clock) = "Pending"
    THEN [self |-> self, ret |-> "Pending", ordinal |-> N, deadline |-> 0, panic |-> ""]
    ELSE LET fired_ordinal == self.armed_ordinal
             s1 == [self EXCEPT !.armed_ordinal = N]
             slot == s1.deadlines[fired_ordinal]
         IN IF slot = None
            THEN [self |-> s1, ret |-> "panic", ordinal |-> fired_ordinal, deadline |-> 0,
                  panic |-> "armed"]
            ELSE LET fired_deadline == slot[1]
                 IN IF fired_deadline # s1.sleep
                    THEN [self |-> s1, ret |-> "panic", ordinal |-> fired_ordinal,
                          deadline |-> fired_deadline,
                          panic |-> "assertion failed: fired_deadline == sleep.deadline()"]
                    ELSE LET e == soonest_event(s1)
                             s3 == IF e # None THEN arm(s1, e[1][1], e[1][2]) ELSE s1
                         IN [self |-> s3, ret |-> "Ready", ordinal |-> fired_ordinal,
                             deadline |-> fired_deadline, panic |-> ""]

\* Lines 96-103 of Future::poll, reached once the assertion has passed: the
\* timer after the poll, Pending or Ready, the ordinal and deadline that
\* fired, the panic raised.
poll_armed(self, clock) ==
    IF SleepPoll(self.sleep, clock) = "Pending"
    THEN [self |-> self, ret |-> "Pending", ordinal |-> N, deadline |-> 0, panic |-> ""]
    ELSE LET fired_ordinal == self.armed_ordinal
             s1 == [self EXCEPT !.armed_ordinal = N]
             slot == s1.deadlines[fired_ordinal]
         IN IF slot = None
            THEN [self |-> s1, ret |-> "panic", ordinal |-> fired_ordinal, deadline |-> 0,
                  panic |-> "armed"]
            ELSE LET s2 == [s1 EXCEPT !.deadlines[fired_ordinal] = None]
                     fired_deadline == slot[1]
                 IN IF fired_deadline # s2.sleep
                    THEN [self |-> s2, ret |-> "panic", ordinal |-> fired_ordinal,
                          deadline |-> fired_deadline,
                          panic |-> "assertion failed: fired_deadline == sleep.deadline()"]
                    ELSE LET e == soonest_event(s2)
                             s3 == IF e # None THEN arm(s2, e[1][1], e[1][2]) ELSE s2
                         IN [self |-> s3, ret |-> "Ready", ordinal |-> fired_ordinal,
                             deadline |-> fired_deadline, panic |-> ""]

\* poll without its assertion: an unarmed timer polls the alarm, and once the
\* alarm has elapsed indexes the table with N.
poll_NoAssert(self, clock) ==
    IF self.armed_ordinal < N THEN poll_armed(self, clock)
    ELSE IF SleepPoll(self.sleep, clock) = "Pending"
    THEN [self |-> self, ret |-> "Pending", ordinal |-> N, deadline |-> 0, panic |-> ""]
    ELSE [self |-> self, ret |-> "panic", ordinal |-> N, deadline |-> 0,
          panic |-> "index out of bounds"]

\* Future::poll: assert!(self.armed_ordinal < N), then the body.
poll(self, clock) ==
    IF ~(self.armed_ordinal < N)
    THEN [self |-> self, ret |-> "panic", ordinal |-> N, deadline |-> 0,
          panic |-> "assertion failed: armed_ordinal < N"]
    ELSE poll_armed(self, clock)

Occupied(self) == {i \in Ordinals : self.deadlines[i] # None}

NoCall == [op |-> "new", ordinal |-> N, deadline |-> 0, old |-> None, ret |-> "none",
           after_fire |-> FALSE]

Init ==
    /\ deadlines = Default.deadlines
    /\ sleep = Default.sleep
    /\ armed_ordinal = Default.armed_ordinal
    /\ now = 0
    /\ last = NoCall
    /\ awaiting = FALSE
    /\ fired = << >>
    /\ registered = {}
    /\ panic = ""

\* A call of fire_at, made directly or by fire_after.
Register(ordinal, dl) ==
    LET r == fire_at(Self, ordinal, dl) IN
    /\ deadlines' = r.self.deadlines
    /\ sleep' = r.self.sleep
    /\ armed_ordinal' = r.self.armed_ordinal
    /\ last' = [op |-> "fire_at", ordinal |-> ordinal, deadline |-> dl,
                old |-> IF ordinal < N THEN deadlines[ordinal] ELSE None,
                ret |-> r.ret,
                after_fire |-> \E i \in 1 .. Len(fired) : fired[i][1] = ordinal]
    /\ fired' = << >>
    /\ registered' = Occupied(r.self)
    /\ panic' = r.panic
    /\ UNCHANGED << now, awaiting >>

FireAt(ordinal, dl) ==
    /\ panic = ""
    /\ Register(ordinal, dl)

FireAfter(ordinal, timeout) ==
    /\ panic = ""
    /\ now + timeout <= MaxTime
    /\ Register(ordinal, now + timeout)

Poll ==
    /\ panic = ""
    /\ LET r == poll(Self, now) IN
       /\ deadlines' = r.self.deadlines
       /\ sleep' = r.self.sleep
       /\ armed_ordinal' = r.self.armed_ordinal
       /\ last' = [op |-> "poll", ordinal |-> r.ordinal, deadline |-> r.deadline,
                   old |-> None, ret |-> r.ret, after_fire |-> FALSE]
       /\ awaiting' = (r.ret = "Pending")
       /\ fired' = IF r.ret = "Ready" THEN Append(fired, << r.ordinal, r.deadline >>) ELSE fired
       /\ panic' = r.panic
    /\ UNCHANGED << now, registered >>

Tick ==
    /\ panic = ""
    /\ now < MaxTime
    /\ now' = now + 1
    /\ last' = [NoCall EXCEPT !.op = "tick"]
    /\ UNCHANGED << deadlines, sleep, armed_ordinal, awaiting, fired, registered, panic >>

Next ==
    \/ \E ordinal \in OrdinalArgs, dl \in Instants : FireAt(ordinal, dl)
    \/ \E ordinal \in OrdinalArgs, timeout \in Instants : FireAfter(ordinal, timeout)
    \/ Poll
    \/ Tick

Spec == Init /\ [][Next]_vars

\* The runtime keeps its clock running and keeps polling the awaiting task.
LiveSpec == Spec /\ WF_vars(Tick) /\ WF_vars(Poll)

(***************************************************************************)
(* Properties                                                              *)
(***************************************************************************)

\* The timer after the step being taken.
SelfNext == [deadlines |-> deadlines', sleep |-> sleep', armed_ordinal |-> armed_ordinal']

IsFireAt(call) == call.op = "fire_at"

IsResolved(call) == call.op = "poll" /\ call.ret = "Ready"

\* C1: cursor invariant.  Whenever the timer is armed with ordinal k, slot k
\* is occupied, its deadline is the one programmed into the alarm (what
\* deadline() returns), and no occupied slot holds a sooner deadline.
CursorInvariant ==
    is_armed(Self) =>
        /\ armed_ordinal \in Occupied(Self)
        /\ deadlines[armed_ordinal] = Some(sleep)
        /\ deadline(Self) = deadlines[armed_ordinal]
        /\ \A i \in Occupied(Self) : sleep <= deadlines[i][1]

\* A wait has resolved and re-armed the timer for the sooner of two remaining
\* slots that hold different deadlines.
CursorInvariantWitness ==
    /\ IsResolved(last)
    /\ is_armed(Self)
    /\ \E i \in Occupied(Self) : deadlines[i][1] > sleep

FiredOrdinals == {fired[i][1] : i \in 1 .. Len(fired)}

\* What C2 says besides the order: every ordinal fires at most once, only
\* registered ordinals fire, and once the timer is unarmed all of them have.
EachRegisteredOnce ==
    /\ \A i, j \in 1 .. Len(fired) : i # j => fired[i][1] # fired[j][1]
    /\ FiredOrdinals \subseteq registered
    /\ ~is_armed(Self) => FiredOrdinals = registered

\* C2 as stated: the waits that follow the registrations return the ordinals
\* in strictly ascending order of deadline, each registered ordinal exactly
\* once, and then the timer is unarmed.
FiringOrderStrict ==
    /\ \A i, j \in 1 .. Len(fired) : i < j => fired[i][2] < fired[j][2]
    /\ EachRegisteredOnce

\* C2 (amended): the waits that follow the registrations return the ordinals
\* in ascending order of deadline, ordinals registered with equal deadlines one
\* after the other, each registered ordinal exactly once, and then the timer
\* is unarmed.
FiringOrder ==
    /\ \A i, j \in 1 .. Len(fired) : i < j => fired[i][2] <= fired[j][2]
    /\ EachRegisteredOnce

\* Every slot was registered, two of them with the same deadline, and N waits
\* have drained the timer.
FiringOrderWitness ==
    /\ Len(fired) = N
    /\ registered = Ordinals
    /\ ~is_armed(Self)
    /\ fired[1][2] = fired[2][2]
    /\ fired[2][2] < fired[N][2]

CoalesceSooner ==
    [][ /\ IsFireAt(last') /\ last'.old # None /\ last'.deadline < last'.old[1] =>
            /\ last'.ret = "true"
            /\ deadlines'[last'.ordinal] = Some(last'.deadline)
            /\ Occupied(SelfNext) = {last'.ordinal} =>
                   deadline(SelfNext) = Some(last'.deadline)
        /\ IsResolved(last') /\ Cardinality(Occupied(Self)) = 1 =>
            /\ Occupied(Self) = {last'.ordinal}
            /\ deadlines[last'.ordinal] = Some(last'.deadline)
            /\ ~is_armed(SelfNext)
      ]_vars

\* The only occupied slot has just been moved to a sooner deadline.
CoalesceSoonerWitness ==
    /\ IsFireAt(last)
    /\ last.old # None
    /\ last.deadline < last.old[1]
    /\ Occupied(Self) = {last.ordinal}
    /\ deadline(Self) = Some(last.deadline)

\* C5: fire_at(o, d) with o < N returns false exactly when slot o was
\* occupied with a deadline sooner than d, and true in every other case.
FireAtReturn ==
    IsFireAt(last) /\ last.ordinal < N =>
        LET sooner == last.old # None /\ last.old[1] < last.deadline
        IN last.ret = (IF sooner THEN "false" ELSE "true")

\* fire_at was just called with the deadline the slot already held.
FireAtReturnWitness ==
    /\ IsFireAt(last)
    /\ last.ordinal < N
    /\ last.old = Some(last.deadline)
    /\ last.ret = "true"
\* C6: once every registered event has fired (no slot is occupied) is_armed()
\* is false and deadline() is none, while the alarm still holds the deadline
\* it was last programmed with, the one of the wait that drained the timer.
Drain ==
    Occupied(Self) = {} =>
        /\ ~is_armed(Self)
        /\ deadline(Self) = None
        /\ IsResolved(last) => sleep = last.deadline

\* A wait has just fired the last pending event, at a deadline later than the
\* one the alarm was constructed with.
DrainWitness ==
    /\ IsResolved(last)
    /\ Occupied(Self) = {}
    /\ Len(fired) >= 2
    /\ sleep > 0

AssertArmed == "assertion failed: armed_ordinal < N"

\* C7: a poll of an unarmed timer, fresh or drained, ends in the assertion
\* failure: it returns neither an ordinal nor Pending, and changes nothing.
UnarmedPollPanics ==
    [][ last'.op = "poll" /\ ~is_armed(Self) =>
            /\ last'.ret = "panic"
            /\ panic' = AssertArmed
            /\ SelfNext = Self
      ]_vars

\* A drained timer was polled and the assertion failed.
UnarmedPollPanicsWitness ==
    /\ panic = AssertArmed
    /\ last.op = "poll"
    /\ fired # << >>
    /\ ~is_armed(Self)

\* C8: fire_at or fire_after with an ordinal >= N panics before changing
\* anything: the table, the armed ordinal and the alarm are as before, and the
\* armed ordinal never leaves 0..N.
OutOfRangeOrdinalPanics ==
    [][ /\ IsFireAt(last') /\ last'.ordinal >= N =>
            /\ last'.ret = "panic"
            /\ panic' = "index out of bounds"
            /\ SelfNext = Self
        /\ armed_ordinal' \in 0 .. N
        /\ DOMAIN deadlines' = Ordinals
      ]_vars

\* An armed timer was given the ordinal N and the call panicked.
OutOfRangeOrdinalPanicsWitness ==
    /\ IsFireAt(last)
    /\ last.ordinal = N
    /\ panic = "index out of bounds"
    /\ is_armed(Self)
    /\ Cardinality(Occupied(Self)) >= 2

\* C9: a wait that has returned Pending on an armed timer resolves, and it
\* resolves to an ordinal in 0..N-1, as long as the clock advances and the task
\* is polled, that is unless the caller ends the run by passing an
\* out-of-range ordinal to a registration call meanwhile.
WaitResolves ==
    /\ awaiting ~> (IsResolved(last) /\ last.ordinal \in Ordinals)
                   \/ panic = "index out of bounds"
    /\ [](IsResolved(last) => last.ordinal \in Ordinals)

\* A wait is pending on a timer armed for a deadline the clock has not reached,
\* with a second event behind it.
WaitResolvesWitness ==
    /\ awaiting
    /\ is_armed(Self)
    /\ now < sleep
    /\ Cardinality(Occupied(Self)) >= 2

\* C10: no poll of an armed timer fails: when the alarm has elapsed the slot
\* of the armed ordinal is occupied (expect("armed") holds) and holds the
\* deadline the alarm was last programmed with (assert_eq holds).
WaitNeverFails ==
    /\ panic \notin {"armed", "assertion failed: fired_deadline == sleep.deadline()"}
    /\ is_armed(Self) /\ SleepPoll(sleep, now) = "Ready" =>
           /\ deadlines[armed_ordinal] # None
           /\ deadlines[armed_ordinal][1] = sleep

\* A slot was moved to a sooner deadline, which re-armed the alarm, and the
\* alarm has elapsed.
WaitNeverFailsWitness ==
    /\ IsFireAt(last)
    /\ last.old # None
    /\ last.deadline < last.old[1]
    /\ armed_ordinal = last.ordinal
    /\ Cardinality(Occupied(Self)) >= 2
    /\ SleepPoll(sleep, now) = "Ready"

\* C11: registrations made while a wait is pending are not missed.  The wait
\* resolves to an ordinal whose slot holds, at the resolution, a deadline that
\* no occupied slot undercuts; and a registration made while the wait is
\* pending with a deadline sooner than the armed one takes the alarm over, so
\* that it fires before the event that was armed.
NoSoonerDeadlineMissed ==
    [][ /\ IsResolved(last') =>
            /\ deadlines[last'.ordinal] = Some(last'.deadline)
            /\ \A i \in Occupied(Self) : last'.deadline <= deadlines[i][1]
        /\ awaiting /\ IsFireAt(last') /\ last'.ordinal < N /\ last'.deadline < sleep =>
            /\ awaiting'
            /\ armed_ordinal' = last'.ordinal
            /\ sleep' = last'.deadline
            /\ \A i \in Occupied(SelfNext) \ {last'.ordinal} :
                   last'.deadline < deadlines'[i][1]
      ]_vars

\* While a wait was pending, a new ordinal was registered with a deadline
\* sooner than the armed one and took the alarm over.
NoSoonerDeadlineMissedWitness ==
    /\ awaiting
    /\ IsFireAt(last)
    /\ last.old = None
    /\ last.ret = "true"
    /\ armed_ordinal = last.ordinal
    /\ now < sleep
    /\ Cardinality(Occupied(Self)) >= 2

\* C12: an ordinal that has fired is registered again like a fresh one.  A
\* fire_at(o, d) that follows a wait resolved with o finds slot o empty,
\* returns true and occupies the slot with d, whatever d is and whatever else
\* is pending; and o is returned again: a slot is emptied only by the wait
\* that returns its ordinal, and a slot does not stay occupied forever unless
\* registration calls keep being made.
RearmAfterFire ==
    /\ [](IsFireAt(last) /\ last.after_fire =>
              /\ last.old = None
              /\ last.ret = "true"
              /\ deadlines[last.ordinal] = Some(last.deadline)
              /\ is_armed(Self))
    /\ [][\A o \in Ordinals : deadlines[o] # None /\ deadlines'[o] = None =>
                                  IsResolved(last') /\ last'.ordinal = o]_vars
    /\ \A o \in Ordinals : []<>(deadlines[o] = None \/ IsFireAt(last))

\* Ordinal o fired, and was registered again with a deadline that has passed
\* while another ordinal is still pending with a sooner deadline.
RearmAfterFireWitness ==
    /\ IsFireAt(last)
    /\ last.after_fire
    /\ last.ret = "true"
    /\ last.deadline < now
    /\ armed_ordinal # last.ordinal
    /\ is_armed(Self)

\* C13 as stated: when exactly two ordinals are pending, registered with the
\* same deadline, the two waits that follow return both of them, each once,
\* and the lower ordinal first.
EqualDeadlinesLowestFirst ==
    Len(fired) = 2 /\ Cardinality(registered) = 2 /\ fired[1][2] = fired[2][2] =>
        /\ FiredOrdinals = registered
        /\ fired[1][1] < fired[2][1]

\* The waits that follow the registration of exactly two ordinals with the
\* same deadline return both of them, each once.
EqualDeadlinesBothFire ==
    Len(fired) = 2 /\ Cardinality(registered) = 2 /\ fired[1][2] = fired[2][2] =>
        /\ FiredOrdinals = registered
        /\ fired[1][1] # fired[2][1]

\* C13 (amended): when exactly two ordinals are pending, registered with the
\* same deadline, the two waits that follow return both of them, each once,
\* and the one returned first is the one that was registered with that
\* deadline first, whichever of the two ordinals is lower: the registration
\* that makes the deadlines equal leaves the timer armed with the other
\* ordinal, and a wait returns the armed ordinal.
EqualDeadlinesFirstRegisteredFirst ==
    /\ [](EqualDeadlinesBothFire)
    /\ [][ /\ \A o \in Ordinals, a \in Ordinals :
                  ( /\ IsFireAt(last') /\ last'.ordinal = o /\ last'.ret = "true"
                    /\ a # o
                    /\ Occupied(SelfNext) = {a, o}
                    /\ deadlines'[a] = deadlines'[o]
                    /\ deadlines[o] # deadlines'[o] )
                  => /\ armed_ordinal = a
                     /\ armed_ordinal' = a
                     /\ sleep' = last'.deadline
           /\ IsResolved(last') => last'.ordinal = armed_ordinal
         ]_vars

\* Two ordinals were registered with the same deadline, the higher one first,
\* and the two waits returned the higher one first.
EqualDeadlinesWitness ==
    /\ Len(fired) = 2
    /\ registered = {fired[1][1], fired[2][1]}
    /\ fired[1][2] = fired[2][2]
    /\ fired[1][1] > fired[2][1]
    /\ ~is_armed(Self)

\* C14: no cancellation and no regression.  In every step a slot that stays
\* occupied holds a deadline no later than before, a slot that is emptied is
\* emptied by the wait that returns its ordinal, and a fire_at call neither
\* empties a slot nor moves a deadline later.
NoCancelNoRegress ==
    [][ \A i \in Ordinals :
          /\ deadlines[i] # None /\ deadlines'[i] # None =>
                 deadlines'[i][1] <= deadlines[i][1]
          /\ deadlines[i] # None /\ deadlines'[i] = None =>
                 IsResolved(last') /\ last'.ordinal = i
          /\ IsFireAt(last') /\ deadlines[i] # None =>
                 deadlines'[i] # None /\ deadlines'[i][1] <= deadlines[i][1]
      ]_vars

\* A wait has emptied one slot and left the other N - 1 occupied.
NoCancelNoRegressWitness ==
    /\ IsResolved(last)
    /\ Cardinality(Occupied(Self)) = N - 1
    /\ last.ordinal \notin Occupied(Self)

\* C15: in an armed state, armed with k, every fire_at(o, d) with o < N and
\* d strictly less than the armed deadline returns true whatever slot o held,
\* stores d in slot o, reprograms the alarm to d and arms o; slot k keeps its
\* deadline when o differs from k.
ArmedToArmed ==
    [][ is_armed(Self) /\ IsFireAt(last') /\ last'.ordinal < N /\ last'.deadline < sleep =>
            /\ last'.ret = "true"
            /\ deadlines'[last'.ordinal] = Some(last'.deadline)
            /\ sleep' = last'.deadline
            /\ armed_ordinal' = last'.ordinal
            /\ deadline(SelfNext) = Some(last'.deadline)
            /\ armed_ordinal # last'.ordinal =>
                   deadlines'[armed_ordinal] = deadlines[armed_ordinal]
      ]_vars

\* An ordinal whose slot was empty took the alarm over from the armed one,
\* which keeps its later deadline.
ArmedToArmedWitness ==
    /\ IsFireAt(last)
    /\ last.old = None
    /\ armed_ordinal = last.ordinal
    /\ sleep = last.deadline
    /\ \E k \in Occupied(Self) : deadlines[k][1] > sleep

\* C16: frame of fire_at.  A call fire_at(o, d) changes no slot other than o;
\* rejected, it changes nothing of the timer; accepted on an armed timer with d
\* not strictly less than the armed deadline, it returns true and leaves the
\* armed ordinal and the alarm's deadline as they were.
FireAtFrame ==
    [][ IsFireAt(last') =>
            /\ \A i \in Ordinals \ {last'.ordinal} : deadlines'[i] = deadlines[i]
            /\ last'.ret = "false" => SelfNext = Self
            /\ last'.ret = "true" /\ is_armed(Self) /\ last'.deadline >= sleep =>
                   /\ armed_ordinal' = armed_ordinal
                   /\ sleep' = sleep
      ]_vars

\* An empty slot was occupied with a deadline later than the armed one: the
\* call returned true and the timer stays armed with the other ordinal.
FireAtFrameWitness ==
    /\ IsFireAt(last)
    /\ last.ret = "true"
    /\ last.old = None
    /\ armed_ordinal # last.ordinal
    /\ last.deadline > sleep
    /\ is_armed(Self)

\* The lowest ordinal among the occupied slots that hold the least deadline.
LowestSoonest(self) ==
    CHOOSE k \in Occupied(self) :
        \A i \in Occupied(self) :
            \/ self.deadlines[k][1] < self.deadlines[i][1]
            \/ self.deadlines[k][1] = self.deadlines[i][1] /\ k <= i

\* C17: a wait that resolves with ordinal k empties exactly slot k; if a slot
\* remains occupied the timer is armed with the ordinal of the least remaining
\* deadline, the lowest such ordinal, and the alarm holds that deadline; if none
\* remains the timer is unarmed.
WaitResolutionEffect ==
    [][ IsResolved(last') =>
            /\ deadlines[last'.ordinal] # None
            /\ deadlines' = [deadlines EXCEPT ![last'.ordinal] = None]
            /\ Occupied(SelfNext) # {} =>
                   /\ armed_ordinal' = LowestSoonest(SelfNext)
                   /\ sleep' = deadlines'[armed_ordinal'][1]
            /\ Occupied(SelfNext) = {} => ~is_armed(SelfNext)
      ]_vars

\* A wait has resolved and left two slots with the same deadline; the timer
\* is armed with the lower of the two ordinals.
WaitResolutionEffectWitness ==
    /\ IsResolved(last)
    /\ Cardinality(Occupied(Self)) = 2
    /\ \A i \in Occupied(Self) : deadlines[i] = Some(sleep)
    /\ \A i \in Occupied(Self) : armed_ordinal <= i

\* C18: a freshly constructed timer is unarmed, with all N slots empty and
\* deadline() none; and from an unarmed timer, fresh or drained, every
\* fire_at(o, d) with o < N returns true, arms the timer with o and makes
\* deadline() equal to d, also for a d that has passed.
UnarmedToArmed ==
    /\ ~is_armed(Default)
    /\ Occupied(Default) = {}
    /\ DOMAIN Default.deadlines = Ordinals
    /\ deadline(Default) = None
    /\ [](last.op = "new" => Self = Default)
    /\ [][ ~is_armed(Self) /\ IsFireAt(last') /\ last'.ordinal < N =>
               /\ last'.ret = "true"
               /\ is_armed(SelfNext)
               /\ armed_ordinal' = last'.ordinal
               /\ deadline(SelfNext) = Some(last'.deadline)
               /\ Occupied(SelfNext) = {last'.ordinal}
         ]_vars

\* A drained timer was armed again, by an ordinal that had fired, with a
\* deadline that has already passed.
UnarmedToArmedWitness ==
    /\ IsFireAt(last)
    /\ last.after_fire
    /\ Occupied(Self) = {last.ordinal}
    /\ armed_ordinal = last.ordinal
    /\ deadline(Self) = Some(last.deadline)
    /\ last.deadline < now

\* C19: the timer is armed exactly when a slot of the table is occupied.
ArmedIffPending ==
    is_armed(Self) <=> Occupied(Self) # {}

\* A wait has resolved while one more event is pending: the timer is armed.
ArmedIffPendingWitness ==
    /\ IsResolved(last)
    /\ Cardinality(Occupied(Self)) = 1
    /\ is_armed(Self)
    /\ Len(fired) = N - 1

\* C20: a wait resolves with ordinal o only when the clock has reached the
\* deadline slot o holds at that moment; a poll made while the clock is
\* before the alarm's deadline returns Pending and changes neither the table
\* nor the armed ordinal nor the alarm.
NoEarlyFiring ==
    [][ /\ IsResolved(last') =>
            /\ deadlines[last'.ordinal] # None
            /\ deadlines[last'.ordinal][1] <= now
        /\ last'.op = "poll" /\ is_armed(Self) /\ now < sleep =>
            /\ last'.ret = "Pending"
            /\ SelfNext = Self
      ]_vars

\* The clock has advanced, and a poll has returned Pending because the alarm's
\* deadline is still ahead.
NoEarlyFiringWitness ==
    /\ last.op = "poll"
    /\ last.ret = "Pending"
    /\ now > 0
    /\ now < sleep

====
